---- MODULE Spec2Model ----
(***************************************************************************)
(* Model of src/visor/readable.go: the readable mappers, the transaction   *)
(* JSON codec, the transaction status constructors and the blockchain      *)
(* metadata snapshot.                                                      *)
(***************************************************************************)
EXTENDS Integers, Sequences, FiniteSets, TLC

VARIABLES
    op,          \* which entry point the caller invokes in this run
    pc,          \* caller position: "start", "encoded", "done", "crashed"
    tx,          \* coin.Transaction argument
    str,         \* text handed to TransactionFromJSON
    height,      \* argument of NewConfirmedTransactionStatus
    body,        \* coin.BlockBody argument (its Transactions)
    bind,        \* what the undeclared names `o`, `txIn` denote in the decoder
    json,        \* result of TransactionToJSON
    decoded,     \* result of TransactionFromJSON
    readable,    \* result of NewReadableTransaction
    rbody,       \* result of NewReadableBlockBody
    status,      \* result of a TransactionStatus constructor
    head,        \* v.Blockchain.Head().Head (its BkSeq)
    unspent,     \* len(v.Blockchain.Unspent.Pool)
    unconfirmed, \* len(v.Unconfirmed.Txns)
    mpc,         \* position inside NewBlockchainMetadata
    local,       \* values NewBlockchainMetadata has read so far
    meta,        \* last BlockchainMetadata returned
    held,        \* triples (head, unspent, unconfirmed) held during the call
    dirty        \* mutation seen since the previous / the current call began

codecVars == <<op, pc, tx, str, height, body, bind, json, decoded, readable, rbody, status>>
chainVars == <<head, unspent, unconfirmed, mpc, local, meta, held, dirty>>
vars == <<op, pc, tx, str, height, body, bind, json, decoded, readable, rbody, status,
          head, unspent, unconfirmed, mpc, local, meta, held, dirty>>

(***************************************************************************)
(* Bounds                                                                  *)
(***************************************************************************)
MaxLen == 2        \* longest signature / input / output list
MaxTxns == 2       \* most transactions in a block body
MaxHeight == 3     \* largest height passed to NewConfirmedTransactionStatus
MaxSeq == 2        \* blocks accepted while snapshots are taken
MaxPool == 3       \* cap on unspent outputs and on unconfirmed transactions

(***************************************************************************)
(* Values of the cipher package                                            *)
(***************************************************************************)
SigVals == {"sigA", "sigBad"}
HashVals == {"h1", "h2"}
ZeroSig == "sig0"
ZeroHash == "h0"

SeqsUpTo(S, n) == UNION {[1..k -> S] : k \in 0..n}

\* Texts.  enc says what the characters are: fixed-length hex of signature
\* width, fixed-length hex of hash width, a checksummed base58 address, an
\* address text whose checksum does not match, or anything else.
Text(enc, val) == [enc |-> enc, val |-> val]
EmptyText == Text("empty", "none")
JunkText == Text("junk", "none")

SigHex(sig) == Text("sighex", sig)
SHA256Hex(h) == Text("hashhex", h)
AddressString(a) == Text("base58", a)

SigFromHex(s) ==
    IF s.enc = "sighex" THEN [ok |-> TRUE, val |-> s.val]
    ELSE [ok |-> FALSE, val |-> ZeroSig]

\* An error value: its message and the element indexes it carries (none for
\* errors.New of a fixed message).
Err(msg, at) == [msg |-> msg, at |-> at]
NilErr == Err("nil", {})

DecodeBase58Address(s) ==
    IF s.enc = "base58" THEN [ok |-> TRUE, val |-> s.val]
    ELSE [ok |-> FALSE, val |-> "addr0"]

(***************************************************************************)
(* coin.Transaction                                                        *)
(***************************************************************************)
OutputVals == {[Address |-> "addr1", Coins |-> 100, Hours |-> 5],
               [Address |-> "addr2", Coins |-> 50, Hours |-> 0]}

\* byte size of the canonical encoding
Size(t) == 37 + (4 + 65 * Len(t.Sigs)) + (4 + 32 * Len(t.In)) + (4 + 37 * Len(t.Out))

ZeroTransaction ==
    [Length |-> 0, Type |-> 0, InnerHash |-> ZeroHash,
     Sigs |-> <<>>, In |-> <<>>, Out |-> <<>>]

MkTransaction(sigs, in, out) ==
    LET t == [Length |-> 0, Type |-> 0, InnerHash |-> "h1",
              Sigs |-> sigs, In |-> in, Out |-> out]
    IN [t EXCEPT !.Length = Size(t)]

Transactions ==
    {MkTransaction(s, i, o) : s \in SeqsUpTo(SigVals, MaxLen),
                              i \in SeqsUpTo(HashVals, MaxLen),
                              o \in SeqsUpTo(OutputVals, MaxLen)}

NoDuplicates(s) == \A i, j \in 1..Len(s) : s[i] = s[j] => i = j

\* structural verification of a transaction
Verify(t) ==
    /\ Len(t.In) > 0
    /\ Len(t.Out) > 0
    /\ Len(t.Sigs) = Len(t.In)
    /\ NoDuplicates(t.In)
    /\ \A i \in 1..Len(t.Sigs) : t.Sigs[i] # "sigBad"

TxHash(t) == t.InnerHash

(***************************************************************************)
(* Readable mappers                                                        *)
(***************************************************************************)
NewReadableTransactionOutput(t) ==
    [Address |-> AddressString(t.Address), Coins |-> t.Coins, Hours |-> t.Hours]

\* the mapper filling the input slice from the back
NewReadableTransactionReversed(t) ==
    [Length |-> t.Length,
     Type |-> t.Type,
     Hash |-> SHA256Hex(TxHash(t)),
     InnerHash |-> SHA256Hex(t.InnerHash),
     Sigs |-> [i \in 1..Len(t.Sigs) |-> SigHex(t.Sigs[i])],
     In |-> [i \in 1..Len(t.In) |-> SHA256Hex(t.In[Len(t.In) + 1 - i])],
     Out |-> [i \in 1..Len(t.Out) |-> NewReadableTransactionOutput(t.Out[i])]]

NewReadableTransaction(t) ==
    [Length |-> t.Length,
     Type |-> t.Type,
     Hash |-> SHA256Hex(TxHash(t)),
     InnerHash |-> SHA256Hex(t.InnerHash),
     Sigs |-> [i \in 1..Len(t.Sigs) |-> SigHex(t.Sigs[i])],
     In |-> [i \in 1..Len(t.In) |-> SHA256Hex(t.In[i])],
     Out |-> [i \in 1..Len(t.Out) |-> NewReadableTransactionOutput(t.Out[i])]]

NewReadableBlockBody(b) ==
    [Transactions |->
        [i \in 1..Len(b.Transactions) |-> NewReadableTransaction(b.Transactions[i])]]

(***************************************************************************)
(* Transaction status                                                      *)
(***************************************************************************)
ZeroStatus == [Unconfirmed |-> FALSE, Unknown |-> FALSE, Confirmed |-> FALSE, Height |-> 0]

NewUnconfirmedTransactionStatus ==
    [outcome |-> "ok",
     value |-> [Unconfirmed |-> TRUE, Unknown |-> FALSE, Confirmed |-> FALSE, Height |-> 0]]

NewUnknownTransactionStatus ==
    [outcome |-> "ok",
     value |-> [Unconfirmed |-> FALSE, Unknown |-> TRUE, Confirmed |-> FALSE, Height |-> 0]]

\* the constructor without its height check
NewConfirmedTransactionStatusUnchecked(h) ==
    [outcome |-> "ok",
     value |-> [Unconfirmed |-> FALSE, Unknown |-> FALSE, Confirmed |-> TRUE, Height |-> h]]

\* log.Panic on height 0: nothing is returned, the goroutine panics
NewConfirmedTransactionStatus(h) ==
    IF h = 0
    THEN [outcome |-> "panic", value |-> ZeroStatus]
    ELSE [outcome |-> "ok",
          value |-> [Unconfirmed |-> FALSE, Unknown |-> FALSE, Confirmed |-> TRUE,
                     Height |-> h]]

(***************************************************************************)
(* Transactions to and from JSON                                           *)
(***************************************************************************)
NewTransactionOutputJSON(ux) ==
    [Address |-> AddressString(ux.Address), Coins |-> ux.Coins, Hours |-> ux.Hours]

ZeroOutput == [Address |-> "addr0", Coins |-> 0, Hours |-> 0]

TransactionOutputFromJSON(in) ==
    LET a == DecodeBase58Address(in.Address)
    IN IF ~a.ok
       THEN [ok |-> FALSE, val |-> ZeroOutput, err |-> Err("Adress decode fail", {})]
       ELSE [ok |-> TRUE,
             val |-> [Address |-> a.val, Coins |-> in.Coins, Hours |-> in.Hours],
             err |-> NilErr]

ZeroTransactionJSON ==
    [Hash |-> EmptyText, InnerHash |-> EmptyText, Sigs |-> <<>>, In |-> <<>>, Out |-> <<>>]

\* A text is either a JSON object with the struct tags as keys, or garbage.
GarbageStr ==
    [syntax |-> "garbage", hash |-> EmptyText, inner_hash |-> EmptyText,
     sigs |-> <<>>, in |-> <<>>, out |-> <<>>]

EmptyStr ==
    [syntax |-> "empty", hash |-> EmptyText, inner_hash |-> EmptyText,
     sigs |-> <<>>, in |-> <<>>, out |-> <<>>]

JsonMarshalIndent(o) ==
    [syntax |-> "json", hash |-> o.Hash, inner_hash |-> o.InnerHash,
     sigs |-> o.Sigs, in |-> o.In, out |-> o.Out]

\* json.Unmarshal(data, v): v must be a non-nil pointer, else an
\* InvalidUnmarshalError is returned and nothing is stored.
JsonUnmarshal(s, dest, isPointer) ==
    IF ~isPointer THEN [err |-> "InvalidUnmarshalError", val |-> dest]
    ELSE IF s.syntax # "json" THEN [err |-> "SyntaxError", val |-> dest]
    ELSE [err |-> "nil",
          val |-> [Hash |-> s.hash, InnerHash |-> s.inner_hash,
                   Sigs |-> s.sigs, In |-> s.in, Out |-> s.out]]

\* o.Hash and o.InnerHash are never assigned.
TransactionToJSON(t) ==
    IF ~Verify(t)
    THEN [outcome |-> "panic", str |-> EmptyStr]
    ELSE LET o == [ZeroTransactionJSON EXCEPT
                     !.Sigs = [i \in 1..Len(t.Sigs) |-> SigHex(t.Sigs[i])],
                     !.In = [i \in 1..Len(t.In) |-> SHA256Hex(t.In[i])],
                     !.Out = [i \in 1..Len(t.Out) |-> NewTransactionOutputJSON(t.Out[i])]]
         IN [outcome |-> "ok", str |-> JsonMarshalIndent(o)]

DecodeResult(outcome, t, err) == [outcome |-> outcome, tx |-> t, err |-> err]

\* Both loops of TransactionFromJSON: for i over `over`, decode o.In[i] as a
\* signature and store it in t.Sigs[i].  An index past the end of a slice is
\* a run-time panic.
RECURSIVE SigLoop(_, _, _, _)
SigLoop(over, o, t, i) ==
    IF i > Len(over) THEN DecodeResult("next", t, NilErr)
    ELSE IF i > Len(o.In) THEN DecodeResult("panic", ZeroTransaction, Err("index out of range", {}))
    ELSE LET r == SigFromHex(o.In[i])
         IN IF ~r.ok THEN DecodeResult("error", ZeroTransaction, Err("invalid signature", {}))
            ELSE IF i > Len(t.Sigs)
            THEN DecodeResult("panic", ZeroTransaction, Err("index out of range", {}))
            ELSE SigLoop(over, o, [t EXCEPT !.Sigs[i] = r.val], i + 1)

\* b names what the undeclared identifiers `o` and `txIn` denote: the
\* declared TxIn as Unmarshal left it, or the document the text holds.
TransactionFromJSON(s, b) ==
    LET u == JsonUnmarshal(s, ZeroTransactionJSON, FALSE)
        TxIn == u.val
        document == JsonUnmarshal(s, ZeroTransactionJSON, TRUE).val
        o == IF b.o = "TxIn" THEN TxIn ELSE document
        txIn == IF b.txIn = "TxIn" THEN TxIn ELSE document
        t0 == [ZeroTransaction EXCEPT
                 !.Sigs = [i \in 1..Len(o.Sigs) |-> ZeroSig],
                 !.In = [i \in 1..Len(o.In) |-> ZeroHash],
                 !.Out = [i \in 1..Len(o.Out) |-> ZeroOutput]]
        r1 == SigLoop(txIn.Sigs, o, t0, 1)
        r2 == IF r1.outcome = "next" THEN SigLoop(txIn.In, o, r1.tx, 1) ELSE r1
    IN IF r2.outcome # "next" THEN r2
       ELSE LET t == [r2.tx EXCEPT !.Length = Size(r2.tx), !.Type = 0]
            IN DecodeResult("ok", ZeroTransaction, NilErr)

(***************************************************************************)
(* Blockchain metadata                                                     *)
(***************************************************************************)
GenesisHeader ==
    [Version |-> 0, Time |-> 0, BkSeq |-> 0, Fee |-> 0, PrevHash |-> ZeroHash, BodyHash |-> "h1"]

NewReadableBlockHeader(b) ==
    [Version |-> b.Version, Time |-> b.Time, BkSeq |-> b.BkSeq, Fee |-> b.Fee,
     PrevHash |-> SHA256Hex(b.PrevHash), BodyHash |-> SHA256Hex(b.BodyHash)]

NoMetadata == [Head |-> NewReadableBlockHeader(GenesisHeader), Unspents |-> 0, Unconfirmed |-> 0]

\* the triple a snapshot taken at this instant would hold
Triple(h, u, c) == [Head |-> NewReadableBlockHeader(h), Unspents |-> u, Unconfirmed |-> c]

ChainInit ==
    /\ head = GenesisHeader
    /\ unspent = 1
    /\ unconfirmed = 0
    /\ mpc = "idle"
    /\ local = NoMetadata
    /\ meta = NoMetadata
    /\ held = {}
    /\ dirty = [prev |-> TRUE, cur |-> TRUE]

Mutated ==
    /\ dirty' = [prev |-> TRUE, cur |-> TRUE]
    /\ held' = IF mpc = "idle" THEN held ELSE held \cup {Triple(head', unspent', unconfirmed')}

\* transaction ingestion: one more transaction in the unconfirmed pool
InjectTxn ==
    /\ unconfirmed < MaxPool
    /\ unconfirmed' = unconfirmed + 1
    /\ UNCHANGED <<head, unspent, mpc, local, meta>>
    /\ Mutated

\* block acceptance: a block carrying one pooled transaction becomes the head;
\* its inputs leave the unspent set and its outputs enter it
ExecuteSignedBlock ==
    /\ head.BkSeq < MaxSeq
    /\ unconfirmed > 0
    /\ \E spent \in 1..unspent, created \in 1..MaxPool :
          /\ unspent - spent + created <= MaxPool
          /\ unspent' = unspent - spent + created
    /\ head' = [head EXCEPT !.BkSeq = head.BkSeq + 1, !.Time = head.Time + 1,
                            !.PrevHash = head.BodyHash,
                            !.BodyHash = IF head.BodyHash = "h1" THEN "h2" ELSE "h1"]
    /\ unconfirmed' = unconfirmed - 1
    /\ UNCHANGED <<mpc, local, meta>>
    /\ Mutated

\* NewBlockchainMetadata, line 23: head := v.Blockchain.Head().Head
MetaReadHead ==
    /\ mpc = "idle"
    /\ local' = [NoMetadata EXCEPT !.Head = NewReadableBlockHeader(head)]
    /\ mpc' = "unspents"
    /\ held' = {Triple(head, unspent, unconfirmed)}
    /\ dirty' = [prev |-> dirty.cur, cur |-> FALSE]
    /\ UNCHANGED <<head, unspent, unconfirmed, meta>>

\* line 26: Unspents: uint64(len(v.Blockchain.Unspent.Pool))
MetaReadUnspents ==
    /\ mpc = "unspents"
    /\ local' = [local EXCEPT !.Unspents = unspent]
    /\ mpc' = "unconfirmed"
    /\ UNCHANGED <<head, unspent, unconfirmed, meta, held, dirty>>

\* line 27: Unconfirmed: uint64(len(v.Unconfirmed.Txns)), and the return
MetaReadUnconfirmed ==
    /\ mpc = "unconfirmed"
    /\ meta' = [local EXCEPT !.Unconfirmed = unconfirmed]
    /\ local' = NoMetadata
    /\ mpc' = "idle"
    /\ UNCHANGED <<head, unspent, unconfirmed, held, dirty>>

(***************************************************************************)
(* Callers of the pure entry points                                        *)
(***************************************************************************)
SigTexts == {SigHex("sigA"), SHA256Hex("h1"), JunkText}
InTexts == {SHA256Hex("h1"), SigHex("sigA"), JunkText}
OutTexts == {[Address |-> AddressString("addr1"), Coins |-> 100, Hours |-> 5],
             [Address |-> Text("badsum", "addr2"), Coins |-> 50, Hours |-> 0]}

Documents ==
    {[ZeroTransactionJSON EXCEPT !.Sigs = s, !.In = i, !.Out = o] :
        s \in SeqsUpTo(SigTexts, MaxLen),
        i \in SeqsUpTo(InTexts, MaxLen),
        o \in SeqsUpTo(OutTexts, MaxLen)}

Strs == {GarbageStr} \cup {JsonMarshalIndent(d) : d \in Documents}

Bindings == [o : {"TxIn", "document"}, txIn : {"TxIn", "document"}]
NoBinding == [o |-> "TxIn", txIn |-> "TxIn"]

BodyTxns ==
    {MkTransaction(<<>>, <<>>, <<>>),
     MkTransaction(<<"sigA">>, <<"h1">>, <<[Address |-> "addr1", Coins |-> 100, Hours |-> 5]>>),
     MkTransaction(<<"sigA", "sigBad">>, <<"h2", "h1">>,
                   <<[Address |-> "addr2", Coins |-> 50, Hours |-> 0],
                     [Address |-> "addr1", Coins |-> 100, Hours |-> 5]>>)}

Bodies == {[Transactions |-> b] : b \in SeqsUpTo(BodyTxns, MaxTxns)}
NoBody == [Transactions |-> <<>>]

NoJson == [outcome |-> "none", str |-> EmptyStr]
NoDecoded == DecodeResult("none", ZeroTransaction, NilErr)
NoReadable == [outcome |-> "none", value |-> NewReadableTransaction(ZeroTransaction)]
NoRBody == [outcome |-> "none", value |-> NewReadableBlockBody(NoBody)]
NoStatus == [outcome |-> "none", value |-> ZeroStatus]

Input(o, t, s, h, b, n) ==
    [op |-> o, tx |-> t, str |-> s, height |-> h, body |-> b, bind |-> n]

Inputs ==
    {Input("codec", t, EmptyStr, 0, NoBody, n) : t \in Transactions, n \in Bindings}
    \cup {Input("decode", ZeroTransaction, s, 0, NoBody, n) : s \in Strs, n \in Bindings}
    \cup {Input("readable", t, EmptyStr, 0, NoBody, NoBinding) : t \in Transactions}
    \cup {Input("body", ZeroTransaction, EmptyStr, 0, b, NoBinding) : b \in Bodies}
    \cup {Input("confirmed", ZeroTransaction, EmptyStr, h, NoBody, NoBinding) : h \in 0..MaxHeight}
    \cup {Input(o, ZeroTransaction, EmptyStr, 0, NoBody, NoBinding) : o \in {"unconfirmed", "unknown"}}

CodecInit(inp) ==
    /\ op = inp.op
    /\ pc = "start"
    /\ tx = inp.tx
    /\ str = inp.str
    /\ height = inp.height
    /\ body = inp.body
    /\ bind = inp.bind
    /\ json = NoJson
    /\ decoded = NoDecoded
    /\ readable = NoReadable
    /\ rbody = NoRBody
    /\ status = NoStatus

Init == (\E inp \in Inputs : CodecInit(inp)) /\ ChainInit

After(outcome) == IF outcome = "panic" THEN "crashed" ELSE "done"

CallTransactionToJSON ==
    /\ op = "codec" /\ pc = "start"
    /\ json' = TransactionToJSON(tx)
    /\ str' = json'.str
    /\ pc' = IF json'.outcome = "panic" THEN "crashed" ELSE "encoded"
    /\ UNCHANGED <<op, tx, height, body, bind, decoded, readable, rbody, status>>

CallTransactionFromJSON ==
    /\ \/ op = "codec" /\ pc = "encoded"
       \/ op = "decode" /\ pc = "start"
    /\ decoded' = TransactionFromJSON(str, bind)
    /\ pc' = After(decoded'.outcome)
    /\ UNCHANGED <<op, tx, str, height, body, bind, json, readable, rbody, status>>

CallNewReadableTransaction ==
    /\ op = "readable" /\ pc = "start"
    /\ readable' = [outcome |-> "ok", value |-> NewReadableTransaction(tx)]
    /\ pc' = "done"
    /\ UNCHANGED <<op, tx, str, height, body, bind, json, decoded, rbody, status>>

CallNewReadableBlockBody ==
    /\ op = "body" /\ pc = "start"
    /\ rbody' = [outcome |-> "ok", value |-> NewReadableBlockBody(body)]
    /\ pc' = "done"
    /\ UNCHANGED <<op, tx, str, height, body, bind, json, decoded, readable, status>>

CallNewConfirmedTransactionStatus ==
    /\ op = "confirmed" /\ pc = "start"
    /\ status' = NewConfirmedTransactionStatus(height)
    /\ pc' = After(status'.outcome)
    /\ UNCHANGED <<op, tx, str, height, body, bind, json, decoded, readable, rbody>>

CallNewUnconfirmedTransactionStatus ==
    /\ op = "unconfirmed" /\ pc = "start"
    /\ status' = NewUnconfirmedTransactionStatus
    /\ pc' = After(status'.outcome)
    /\ UNCHANGED <<op, tx, str, height, body, bind, json, decoded, readable, rbody>>

CallNewUnknownTransactionStatus ==
    /\ op = "unknown" /\ pc = "start"
    /\ status' = NewUnknownTransactionStatus
    /\ pc' = After(status'.outcome)
    /\ UNCHANGED <<op, tx, str, height, body, bind, json, decoded, readable, rbody>>

Next ==
    \/ (CallTransactionToJSON /\ UNCHANGED chainVars)
    \/ (CallTransactionFromJSON /\ UNCHANGED chainVars)
    \/ (CallNewReadableTransaction /\ UNCHANGED chainVars)
    \/ (CallNewReadableBlockBody /\ UNCHANGED chainVars)
    \/ (CallNewConfirmedTransactionStatus /\ UNCHANGED chainVars)
    \/ (CallNewUnconfirmedTransactionStatus /\ UNCHANGED chainVars)
    \/ (CallNewUnknownTransactionStatus /\ UNCHANGED chainVars)

Spec == Init /\ [][Next]_vars

\* The snapshot runs beside block acceptance and transaction ingestion.
MetaInit == CodecInit(Input("metadata", ZeroTransaction, EmptyStr, 0, NoBody, NoBinding)) /\ ChainInit

MetaNext ==
    \/ (InjectTxn /\ UNCHANGED codecVars)
    \/ (ExecuteSignedBlock /\ UNCHANGED codecVars)
    \/ (MetaReadHead /\ UNCHANGED codecVars)
    \/ (MetaReadUnspents /\ UNCHANGED codecVars)
    \/ (MetaReadUnconfirmed /\ UNCHANGED codecVars)

MetaSpec == MetaInit /\ [][MetaNext]_vars

(***************************************************************************)
(* Properties                                                              *)
(***************************************************************************)
Min(S) == CHOOSE x \in S : \A y \in S : x <= y

BadSigs(s) == {i \in 1..Len(s.sigs) : s.sigs[i].enc # "sighex"}
BadIns(s) == {i \in 1..Len(s.in) : s.in[i].enc # "hashhex"}
BadOuts(s) == {i \in 1..Len(s.out) : s.out[i].Address.enc # "base58"}
DecodeActed == decoded.outcome # "none"
\* a failed decode hands back the named error, the element's index (counted
\* from 0) and no transaction
Rejected(msgs, at) ==
    /\ decoded.outcome = "error"
    /\ decoded.err.msg \in msgs
    /\ decoded.err.at = at
    /\ decoded.tx = ZeroTransaction

\* C1: round trip. Decoding the encoding of a structurally valid transaction
\* succeeds and gives back its signatures, inputs and outputs in order, with
\* Length the canonical size of the decoded transaction and Type 0.
RoundTrip ==
    (op = "codec" /\ Verify(tx) /\ json.outcome # "none") =>
        /\ json.outcome = "ok"
        /\ DecodeActed =>
              /\ decoded.outcome = "ok"
              /\ decoded.tx.Sigs = tx.Sigs
              /\ decoded.tx.In = tx.In
              /\ decoded.tx.Out = tx.Out
              /\ decoded.tx.Length = Size(decoded.tx)
              /\ decoded.tx.Type = 0

\* C2: fail-closed encode. Encoding a transaction that fails structural
\* verification produces no document and returns a VerificationFailed error
\* to the caller; the process keeps running.
FailClosedEncode ==
    (op = "codec" /\ ~Verify(tx) /\ pc # "start") =>
        /\ json.outcome = "VerificationFailed"
        /\ json.str = EmptyStr
        /\ pc # "crashed"

\* C3: status invariant. Every status a constructor returns has exactly one
\* flag set; a confirmed one has Height >= 1 equal to the height passed; the
\* unconfirmed and unknown ones have Height 0.
StatusInvariant ==
    status.outcome = "ok" =>
        LET v == status.value
        IN /\ Cardinality({f \in {"Unconfirmed", "Unknown", "Confirmed"} : v[f]}) = 1
           /\ v.Confirmed => (v.Height >= 1 /\ v.Height = height)
           /\ op = "confirmed" => v.Confirmed
           /\ op = "unconfirmed" => (v.Unconfirmed /\ v.Height = 0)
           /\ op = "unknown" => (v.Unknown /\ v.Height = 0)

StatusWitness ==
    /\ op = "confirmed" /\ pc = "done"
    /\ status.value.Confirmed
    /\ status.value.Height = MaxHeight

\* C4: a confirmed status of height 0 is refused with an InvalidConfirmedHeight
\* error returned to the caller: no status value, and the process keeps running.
ConfirmedZeroRejected ==
    (op = "confirmed" /\ height = 0 /\ pc # "start") =>
        /\ status.outcome = "InvalidConfirmedHeight"
        /\ status.value = ZeroStatus
        /\ pc # "crashed"

\* C5: decode rejects malformed hex. A signature text (an input text) that is
\* not fixed-length hex makes the decode fail with InvalidSignatureEncoding
\* (InvalidInputEncoding) at that element's index in its own list and no
\* transaction; signatures come from the signature list, inputs from the
\* input list.
DecodeRejectsMalformedHex ==
    (op = "decode" /\ DecodeActed /\ str.syntax = "json") =>
        /\ BadSigs(str) # {} =>
              Rejected({"InvalidSignatureEncoding", "invalid signature"}, {Min(BadSigs(str)) - 1})
        /\ (BadSigs(str) = {} /\ BadIns(str) # {}) =>
              Rejected({"InvalidInputEncoding", "invalid input"}, {Min(BadIns(str)) - 1})
        /\ decoded.outcome = "ok" =>
              /\ decoded.tx.Sigs = [i \in 1..Len(str.sigs) |-> str.sigs[i].val]
              /\ decoded.tx.In = [i \in 1..Len(str.in) |-> str.in[i].val]

\* C6: decoding a text that does not parse as a transaction document returns
\* a MalformedDocument error and builds no transaction.
DecodeRejectsMalformedDocument ==
    (op = "decode" /\ DecodeActed /\ str.syntax # "json") =>
        Rejected({"MalformedDocument", "cannot deserialize"}, {})

\* C7: decode rejects a bad address. An output whose address fails checksummed
\* decoding makes the decode fail with InvalidAddressEncoding at its index;
\* when every address decodes, address, coins and hours of each output are
\* copied to the same index.
DecodeRejectsBadAddress ==
    (op = "decode" /\ DecodeActed /\ str.syntax = "json"
        /\ BadSigs(str) = {} /\ BadIns(str) = {} /\ Len(str.sigs) = Len(str.in)) =>
        /\ BadOuts(str) # {} =>
              Rejected({"InvalidAddressEncoding", "Adress decode fail"}, {Min(BadOuts(str)) - 1})
        /\ BadOuts(str) = {} =>
              /\ decoded.outcome = "ok"
              /\ decoded.tx.Out = [i \in 1..Len(str.out) |->
                                     [Address |-> str.out[i].Address.val,
                                      Coins |-> str.out[i].Coins,
                                      Hours |-> str.out[i].Hours]]

\* C8: a document whose signature list and input list differ in length, all
\* elements well formed, is refused with InputSignatureCountMismatch and no
\* transaction.
DecodeRejectsCountMismatch ==
    (op = "decode" /\ DecodeActed /\ str.syntax = "json"
        /\ BadSigs(str) = {} /\ BadIns(str) = {} /\ BadOuts(str) = {}
        /\ Len(str.sigs) # Len(str.in)) =>
        Rejected({"InputSignatureCountMismatch"}, {})

\* C9: order preservation. NewReadableTransaction and the document of
\* TransactionToJSON hold as many signatures, inputs and outputs as the
\* transaction, the i-th text being the rendering of the i-th element;
\* NewReadableBlockBody maps the i-th transaction to the i-th readable one.
Rendered(sigs, in, out, t) ==
    /\ Len(sigs) = Len(t.Sigs) /\ Len(in) = Len(t.In) /\ Len(out) = Len(t.Out)
    /\ \A i \in 1..Len(t.Sigs) : sigs[i] = SigHex(t.Sigs[i])
    /\ \A i \in 1..Len(t.In) : in[i] = SHA256Hex(t.In[i])
    /\ \A i \in 1..Len(t.Out) :
          out[i] = [Address |-> AddressString(t.Out[i].Address),
                    Coins |-> t.Out[i].Coins, Hours |-> t.Out[i].Hours]

OrderPreserved ==
    /\ readable.outcome = "ok" =>
          Rendered(readable.value.Sigs, readable.value.In, readable.value.Out, tx)
    /\ json.outcome = "ok" => Rendered(json.str.sigs, json.str.in, json.str.out, tx)
    /\ rbody.outcome = "ok" =>
          /\ Len(rbody.value.Transactions) = Len(body.Transactions)
          /\ \A i \in 1..Len(body.Transactions) :
                LET r == rbody.value.Transactions[i]
                IN Rendered(r.Sigs, r.In, r.Out, body.Transactions[i])

OrderWitness ==
    /\ readable.outcome = "ok"
    /\ Len(tx.In) = MaxLen /\ tx.In[1] # tx.In[MaxLen]
    /\ Len(tx.Sigs) = MaxLen /\ tx.Sigs[1] # tx.Sigs[MaxLen]
    /\ Len(tx.Out) = MaxLen /\ tx.Out[1] # tx.Out[MaxLen]

\* C10: snapshot consistency. The metadata a call returns is the triple
\* (head, unspents, unconfirmed) the chain and the pool held together at one
\* instant of the call, whatever block acceptance and transaction ingestion do
\* meanwhile; calls with no mutation between them return the same triple.
SnapshotConsistent ==
    /\ [](mpc = "idle" /\ held # {} => meta \in held)
    /\ [][(mpc = "unconfirmed" /\ mpc' = "idle" /\ ~dirty.prev) => meta' = meta]_vars

====
